---- MODULE Spec2Model ----
(***************************************************************************)
(* Model of SmartProductScraper (scrapper_json/json_bowtech.py): the       *)
(* robots.txt gate, the breadth-first crawl loop of crawl_site and the     *)
(* harvest loop of scrape_all_products.  URLs are sequences of one-        *)
(* character strings so that urljoin, the '#'/'?' cut, the netloc test and *)
(* the regular-expression searches are computed on the text of the URL.    *)
(***************************************************************************)
EXTENDS Integers, Sequences, FiniteSets, TLC

(* ---------------------------- bounds ----------------------------------- *)
\* largest max_pages argument tried besides the default
MaxPagesArg == 2
\* most <a href> anchors on one fetched page
MaxAnchors == 2
\* size of the product-URL universe of the harvest-only specification
MaxProducts == 11
\* most pieces of text after the root in a URL given to the link helpers
MaxPieces == 4
\* most elements of a JSON list inside a structured-data object
MaxListLen == 2
\* most <script type="application/ld+json"> blocks on one page
MaxBlocks == 2

(* ------------------------- program constants --------------------------- *)
\* crawl_site(self, root_url, max_pages: int = 1000)
DefaultMaxPages == 1000
\* limit = 10 in scrape_all_products
limit == 10

(* ------------------------------ text ----------------------------------- *)
Lower(c) ==
    CASE c = "J" -> "j" [] c = "P" -> "p" [] c = "G" -> "g"
      [] OTHER -> c

WordChars ==
    {"a", "b", "c", "d", "e", "f", "g", "h", "i", "j", "l", "m", "n", "o",
     "p", "q", "r", "s", "t", "u", "v", "w", "x", "J", "P", "G",
     "0", "1", "2", "3", "4", "5", "6", "7", "8", "9", "_"}

\* s[i..j], empty when j < i
Slice(s, i, j) == SubSeq(s, i, j)

\* pat occurs in s starting at position i
MatchAt(s, pat, i) ==
    /\ i >= 1
    /\ i + Len(pat) - 1 <= Len(s)
    /\ \A k \in 1..Len(pat) : s[i + k - 1] = pat[k]

StartsWith(s, pat) == MatchAt(s, pat, 1)

\* positions of character c in s
Positions(s, c) == {i \in 1..Len(s) : s[i] = c}

Min(S) == CHOOSE m \in S : \A n \in S : m <= n

\* str.split(c)[0]: the text before the first c, all of s when c is absent
SplitFirst(s, c) ==
    IF Positions(s, c) = {} THEN s ELSE Slice(s, 1, Min(Positions(s, c)) - 1)

(* ------------------------------ URLs ----------------------------------- *)
Scheme == <<"h", ":">>

\* urlparse(url).netloc: the text after "scheme://" up to the first of / ? #
Netloc(url) ==
    IF ~ (StartsWith(url, Scheme) /\ MatchAt(url, <<"/", "/">>, Len(Scheme) + 1))
    THEN <<>>
    ELSE LET rest == Slice(url, Len(Scheme) + 3, Len(url))
             ends == {i \in 1..Len(rest) : rest[i] \in {"/", "?", "#"}}
         IN  IF ends = {} THEN rest ELSE Slice(rest, 1, Min(ends) - 1)

\* the path of an absolute URL: what follows the netloc, up to ? or #
UrlPath(url) ==
    LET start == Len(Scheme) + 3 + Len(Netloc(url))
        rest  == Slice(url, start, Len(url))
    IN  SplitFirst(SplitFirst(rest, "#"), "?")

\* urlsplit raises ValueError("Invalid IPv6 URL") on an unbalanced bracket
UrlRaises(url) ==
    LET n == Netloc(url)
    IN  (Positions(n, "[") # {}) # (Positions(n, "]") # {})

\* urljoin(base, href) for an absolute href and for an absolute-path href
urljoin(base, href) ==
    IF StartsWith(href, Scheme) THEN href
    ELSE Scheme \o <<"/", "/">> \o Netloc(base) \o href

is_same_domain(url, root_domain) == Netloc(url) = Netloc(root_domain)

Contains(s, pat) == \E i \in 1..Len(s) : MatchAt(s, pat, i)

ProductsPat == <<"/", "p", "r", "o", "d", "u", "c", "t", "s", "/">>
CollectionsPat == <<"/", "c", "o", "l", "l", "e", "c", "t", "i", "o", "n", "s", "/">>

\* re.search(r"/products/", url) or re.search(r"/collections/.*/products/", url)
is_product_url(url) ==
    \/ Contains(url, ProductsPat)
    \/ \E i \in 1..Len(url), j \in 1..Len(url) :
          /\ MatchAt(url, CollectionsPat, i)
          /\ j >= i + Len(CollectionsPat)
          /\ MatchAt(url, ProductsPat, j)

MediaExts ==
    { <<"j", "p", "g">>, <<"j", "p", "e", "g">>, <<"p", "n", "g">>,
      <<"g", "i", "f">>, <<"b", "m", "p">>, <<"s", "v", "g">>,
      <<"w", "e", "b", "p">> }

\* re.search(r"\b\.(jpg|jpeg|png|gif|bmp|svg|webp)(\b|(?=\?))", url, re.IGNORECASE)
IsMediaLink(url) ==
    \E i \in 2..Len(url), e \in MediaExts :
        /\ url[i - 1] \in WordChars
        /\ url[i] = "."
        /\ i + Len(e) <= Len(url)
        /\ \A k \in 1..Len(e) : Lower(url[i + k]) = e[k]
        /\ \/ i + Len(e) = Len(url)
           \/ url[i + Len(e) + 1] \notin WordChars

\* clean_url = url.split("#")[0]; clean_url = clean_url.split("?")[0]
CleanUrl(url) == SplitFirst(SplitFirst(url, "#"), "?")

root_url == <<"h", ":", "/", "/", "r">>

\* get_all_links raises when urljoin/urlparse raises on one of the anchors
LinksRaise(hrefs, root) == \E h \in hrefs : UrlRaises(urljoin(root, h))

\* get_all_links without the is_same_domain test of line 58
get_all_links_AnyDomain(hrefs, root) ==
    { CleanUrl(urljoin(root, h)) :
        h \in { g \in hrefs : ~ IsMediaLink(CleanUrl(urljoin(root, g))) } }

get_all_links(hrefs, root) ==
    { CleanUrl(urljoin(root, h)) :
        h \in { g \in hrefs : /\ is_same_domain(urljoin(root, g), root)
                              /\ ~ IsMediaLink(CleanUrl(urljoin(root, g))) } }

(* --------------------------- the web site ------------------------------ *)
\* href attributes a fetched page may carry
Hrefs ==
    { <<"/", "a">>,
      <<"/", "p", "r", "o", "d", "u", "c", "t", "s", "/", "p">>,
      <<"/", "p", "r", "o", "d", "u", "c", "t", "s", "/", "p", "?", "v", "#", "f">>,
      <<"/", "d">>,
      <<"/", "i", ".", "J", "P", "G">>,
      <<"h", ":", "/", "/", "x", "/", "b">>,
      <<"h", ":", "/", "/", "[">> }

\* the anchor sets of one page
Pages == {hs \in SUBSET Hrefs : Cardinality(hs) <= MaxAnchors}

\* the pages on which get_all_links returns, and what it returns on each
\* (lines 56-67, evaluated once per anchor set)
ParsablePages == {hs \in Pages : ~ LinksRaise(hs, root_url)}
BrokenPages == Pages \ ParsablePages
LinksOf == [hs \in ParsablePages |-> get_all_links(hs, root_url)]

\* whether line 58 drops one of the anchors
DroppedOf ==
    [hs \in ParsablePages |->
        {"cross" : h \in {g \in hs : ~ is_same_domain(urljoin(root_url, g), root_url)}}]

\* every URL the anchors can name
AllUrls == {root_url} \cup {CleanUrl(urljoin(root_url, h)) : h \in {g \in Hrefs : ~ UrlRaises(g)}}

\* the path and the product test of each of them, evaluated once
PathOf == [u \in AllUrls |-> IF UrlPath(u) = <<>> THEN <<"/">> ELSE UrlPath(u)]
IsProductOf == [u \in AllUrls |-> is_product_url(u)]

\* Disallow: lines of the robots.txt that apply to the scraper's user agent
RuleSets == { {}, {<<"/", "d">>} }

(* ------------------------ urllib.robotparser --------------------------- *)
\* self.robot_parser = None in __init__
NoParser ==
    [obj |-> FALSE, disallow_all |-> FALSE, allow_all |-> FALSE,
     last_checked |-> FALSE, rules |-> {}]

\* RobotFileParser(): nothing read yet
NewParser == [NoParser EXCEPT !.obj = TRUE]

\* what robot_parser.read() can do: raise (URLError, timeout, decode error),
\* get HTTP 401/403, another 4xx, a 5xx, or a robots.txt that is parsed
ReadOutcomes ==
    {[kind |-> k, rules |-> {}] : k \in {"raise", "http_403", "http_404", "http_500"}}
    \cup {[kind |-> "parsed", rules |-> rs] : rs \in RuleSets}

\* read_robots_txt: the parser object is assigned before the try block
read_robots_txt(o) ==
    CASE o.kind = "raise"    -> NewParser
      [] o.kind = "http_403" -> [NewParser EXCEPT !.disallow_all = TRUE]
      [] o.kind = "http_404" -> [NewParser EXCEPT !.allow_all = TRUE]
      [] o.kind = "http_500" -> NewParser
      [] OTHER               -> [NewParser EXCEPT !.last_checked = TRUE, !.rules = o.rules]

\* RobotFileParser.can_fetch as called on line 39
ParserCanFetch(rp, url) ==
    IF rp.disallow_all THEN FALSE
    ELSE IF rp.allow_all THEN TRUE
    ELSE IF ~ rp.last_checked THEN FALSE
    ELSE \A r \in rp.rules : ~ StartsWith(PathOf[url], r)

can_fetch(rp, url) ==
    IF ~ rp.obj THEN TRUE ELSE ParserCanFetch(rp, url)

(* ------------------------------ state ---------------------------------- *)
VARIABLES
    pc,            \* "idle", "loop", "sleep", "hloop", "hsleep"
    entry,         \* the method called: "crawl_site" or "scrape_all_products"
    max_pages,     \* crawl_site's argument
    queue,         \* deque of URLs
    visited_urls,  \* self.visited_urls
    product_urls,  \* self.product_urls
    robot_parser,  \* self.robot_parser
    iter_order,    \* the product URLs the harvest loop has still to iterate
    scrapable,     \* product URLs whose scrape_product succeeds in this run
    count,         \* count in scrape_all_products
    all_products,  \* all_products in scrape_all_products
    output_file,   \* the file on disk
    robots_failed, \* read_robots_txt caught an exception in this session
    ok_count,      \* successful page fetches of the crawl loop in this session
    last_outcome,  \* how the latest crawl iteration ended
    last_url,      \* the URL of the latest crawl iteration
    last_rejected, \* why the latest link discovery left anchors out of the queue
    since_fetch,   \* delays since the latest page request of the run, -1 before the first
    report,        \* the final message of scrape_all_products
    site,          \* the web site when it is fixed: the anchors of each page (map)
                   \* and the pages within d links of the root (near[d])
    call           \* the latest call of a helper on its own: function, argument, result

vars ==
    <<pc, entry, max_pages, queue, visited_urls, product_urls, robot_parser,
      iter_order, scrapable, count, all_products, output_file, robots_failed,
      ok_count, last_outcome, last_url, last_rejected, since_fetch, report,
      site, call>>

crawlVars == <<queue, visited_urls, product_urls, robot_parser, max_pages>>
harvestVars == <<iter_order, scrapable, count, all_products, output_file, report>>
crawlGhosts == <<robots_failed, ok_count, last_outcome, last_url, last_rejected>>
\* everything but the helper call
programVars ==
    <<pc, entry, max_pages, queue, visited_urls, product_urls, robot_parser,
      iter_order, scrapable, count, all_products, output_file, robots_failed,
      ok_count, last_outcome, last_url, last_rejected, since_fetch, report, site>>

NoFile == [exists |-> FALSE, data |-> <<>>]

\* a web site whose pages are not known in advance
AnySite == [fixed |-> FALSE, map |-> <<>>, near |-> <<>>]

\* response.text of line 95: the anchor sets the site can answer a request with
ServedPages(url) == IF site.fixed THEN {site.map[url]} ELSE Pages

\* no helper has been called on its own
NoCall == [fn |-> "none", arg |-> <<>>, out |-> <<>>]

\* all orders in which a set can be iterated
Perms(S) ==
    {f \in [1..Cardinality(S) -> S] : \A i, j \in 1..Cardinality(S) : f[i] = f[j] => i = j}

\* the instance after __init__, before any call
Constructed ==
    /\ pc = "idle"
    /\ entry = "none"
    /\ max_pages = DefaultMaxPages
    /\ queue = <<>>
    /\ visited_urls = {}
    /\ product_urls = {}
    /\ robot_parser = NoParser
    /\ iter_order = <<>>
    /\ scrapable = {}
    /\ count = 0
    /\ all_products = <<>>
    /\ output_file = NoFile
    /\ robots_failed = FALSE
    /\ ok_count = 0
    /\ last_outcome = "none"
    /\ last_url = <<>>
    /\ last_rejected = {}
    /\ since_fetch = -1
    /\ report = "none"

Init ==
    /\ Constructed
    /\ site = AnySite
    /\ call = NoCall

(* ---------------------------- crawl_site ------------------------------- *)
\* crawl_site without the two clear() calls of lines 72-73
CrawlPrologue_NoClear(mp, o) ==
    /\ queue' = <<root_url>>
    /\ UNCHANGED <<visited_urls, product_urls>>
    /\ robot_parser' = read_robots_txt(o)
    /\ robots_failed' = (o.kind = "raise")
    /\ max_pages' = mp
    /\ ok_count' = 0
    /\ last_outcome' = "none"
    /\ last_url' = <<>>
    /\ last_rejected' = {}
    /\ since_fetch' = -1
    /\ report' = "none"
    /\ pc' = "loop"

\* lines 71-76: the queue, the two clear() calls and read_robots_txt
CrawlPrologue(mp, o) ==
    /\ queue' = <<root_url>>
    /\ visited_urls' = {}
    /\ product_urls' = {}
    /\ robot_parser' = read_robots_txt(o)
    /\ robots_failed' = (o.kind = "raise")
    /\ max_pages' = mp
    /\ ok_count' = 0
    /\ last_outcome' = "none"
    /\ last_url' = <<>>
    /\ last_rejected' = {}
    /\ since_fetch' = -1
    /\ report' = "none"
    /\ pc' = "loop"

\* the locals of scrape_all_products do not exist before line 217
NoHarvestLocals ==
    /\ iter_order' = <<>>
    /\ scrapable' = {}
    /\ count' = 0
    /\ all_products' = <<>>

\* a caller invokes crawl_site(root_url, mp)
StartCrawlSite ==
    /\ pc = "idle"
    /\ \E mp \in 0..MaxPagesArg, o \in ReadOutcomes : CrawlPrologue(mp, o)
    /\ entry' = "crawl_site"
    /\ NoHarvestLocals
    /\ UNCHANGED <<output_file, site, call>>

\* scrape_all_products calls crawl_site(root_url) with the default max_pages
StartScrapeAll ==
    /\ pc = "idle"
    /\ \E o \in ReadOutcomes : CrawlPrologue(DefaultMaxPages, o)
    /\ entry' = "scrape_all_products"
    /\ NoHarvestLocals
    /\ UNCHANGED <<output_file, site, call>>

\* while queue and len(self.visited_urls) < max_pages
LoopCond == queue # <<>> /\ Cardinality(visited_urls) < max_pages

\* line 81 without the visited test
SkipCond_NoVisitedTest(url) == ~ can_fetch(robot_parser, url)

\* line 81 without the gate test
SkipCond_NoGateTest(url) == url \in visited_urls

\* line 81
SkipCond(url) == url \in visited_urls \/ ~ can_fetch(robot_parser, url)

\* lines 79-82: popleft, then continue
CrawlSkip ==
    /\ pc = "loop"
    /\ LoopCond
    /\ SkipCond(Head(queue))
    /\ queue' = Tail(queue)
    /\ last_outcome' = "skip"
    /\ last_url' = Head(queue)
    /\ last_rejected' = {}
    /\ UNCHANGED <<site, call, pc, entry, max_pages, visited_urls, product_urls, robot_parser,
                   robots_failed, ok_count, since_fetch>>
    /\ UNCHANGED harvestVars

\* a request error that puts the URL back on the queue
CrawlRequestError_Retry ==
    /\ pc = "loop"
    /\ LoopCond
    /\ ~ SkipCond(Head(queue))
    /\ queue' = Append(Tail(queue), Head(queue))
    /\ last_outcome' = "request_error"
    /\ last_url' = Head(queue)
    /\ last_rejected' = {}
    /\ since_fetch' = 0
    /\ pc' = "sleep"
    /\ UNCHANGED <<site, call, entry, max_pages, visited_urls, product_urls, robot_parser,
                   robots_failed, ok_count>>
    /\ UNCHANGED harvestVars

\* a request error that skips the sleep of line 105, as if it were inside the try block
CrawlRequestError_NoDelay ==
    /\ pc = "loop"
    /\ LoopCond
    /\ ~ SkipCond(Head(queue))
    /\ queue' = Tail(queue)
    /\ last_outcome' = "request_error"
    /\ last_url' = Head(queue)
    /\ last_rejected' = {}
    /\ since_fetch' = 0
    /\ pc' = "loop"
    /\ UNCHANGED <<site, call, entry, max_pages, visited_urls, product_urls, robot_parser,
                   robots_failed, ok_count>>
    /\ UNCHANGED harvestVars

\* lines 86-87 raise: requests.get fails or raise_for_status rejects the status
CrawlRequestError ==
    /\ pc = "loop"
    /\ LoopCond
    /\ ~ SkipCond(Head(queue))
    /\ queue' = Tail(queue)
    /\ last_outcome' = "request_error"
    /\ last_url' = Head(queue)
    /\ last_rejected' = {}
    /\ since_fetch' = 0
    /\ pc' = "sleep"
    /\ UNCHANGED <<site, call, entry, max_pages, visited_urls, product_urls, robot_parser,
                   robots_failed, ok_count>>
    /\ UNCHANGED harvestVars

\* lines 89-93 without the is_product_url test of line 91
MarkVisited_AllProducts(url) ==
    /\ visited_urls' = visited_urls \cup {url}
    /\ product_urls' = product_urls \cup {url}
    /\ ok_count' = ok_count + 1
    /\ last_url' = url
    /\ since_fetch' = 0

\* lines 89-93: the page was fetched
MarkVisited(url) ==
    /\ visited_urls' = visited_urls \cup {url}
    /\ product_urls' = IF IsProductOf[url] THEN product_urls \cup {url}
                       ELSE product_urls
    /\ ok_count' = ok_count + 1
    /\ last_url' = url
    /\ since_fetch' = 0

\* line 99, evaluated after line 89 has added the current URL
Admitted(links, url) ==
    {l \in links : l \notin (visited_urls \cup {url}) /\ can_fetch(robot_parser, l)}

\* what line 58 and line 99 leave out of the queue, by reason
Rejections(hrefs, url) ==
    DroppedOf[hrefs]
    \cup {"visited" : l \in {k \in LinksOf[hrefs] : k \in visited_urls \cup {url}}}
    \cup {"denied" : l \in {k \in LinksOf[hrefs] : ~ can_fetch(robot_parser, k)}}

\* lines 86-100 with appendleft in place of append: a stack, not a queue
CrawlFetchOK_Prepend ==
    /\ pc = "loop"
    /\ LoopCond
    /\ ~ SkipCond(Head(queue))
    /\ last_outcome' = "ok"
    /\ pc' = "sleep"
    /\ MarkVisited(Head(queue))
    /\ \E hrefs \in ServedPages(Head(queue)) \cap ParsablePages :
          /\ last_rejected' = Rejections(hrefs, Head(queue))
          /\ \E order \in Perms(Admitted(LinksOf[hrefs], Head(queue))) :
                queue' = order \o Tail(queue)
    /\ UNCHANGED <<site, call, entry, max_pages, robot_parser, robots_failed>>
    /\ UNCHANGED harvestVars

\* lines 86-100 without an exception: the links are appended in set order
CrawlFetchOK ==
    /\ pc = "loop"
    /\ LoopCond
    /\ ~ SkipCond(Head(queue))
    /\ last_outcome' = "ok"
    /\ pc' = "sleep"
    /\ MarkVisited(Head(queue))
    /\ \E hrefs \in ServedPages(Head(queue)) \cap ParsablePages :
          /\ last_rejected' = Rejections(hrefs, Head(queue))
          /\ \E order \in Perms(Admitted(LinksOf[hrefs], Head(queue))) :
                queue' = Tail(queue) \o order
    /\ UNCHANGED <<site, call, entry, max_pages, robot_parser, robots_failed>>
    /\ UNCHANGED harvestVars

\* lines 86-96 where get_all_links raises: lines 89-93 have already run
CrawlParseError ==
    /\ pc = "loop"
    /\ LoopCond
    /\ ~ SkipCond(Head(queue))
    /\ last_outcome' = "parse_error"
    /\ pc' = "sleep"
    /\ ServedPages(Head(queue)) \cap BrokenPages # {}
    /\ MarkVisited(Head(queue))
    /\ queue' = Tail(queue)
    /\ last_rejected' = {}
    /\ UNCHANGED <<site, call, entry, max_pages, robot_parser, robots_failed>>
    /\ UNCHANGED harvestVars

\* line 105: time.sleep(1)
CrawlSleep ==
    /\ pc = "sleep"
    /\ since_fetch' = since_fetch + 1
    /\ pc' = "loop"
    /\ UNCHANGED <<site, call, entry>>
    /\ UNCHANGED crawlVars
    /\ UNCHANGED crawlGhosts
    /\ UNCHANGED harvestVars

\* lines 107-108 for a direct call: return self.product_urls
CrawlReturn ==
    /\ pc = "loop"
    /\ ~ LoopCond
    /\ entry = "crawl_site"
    /\ pc' = "idle"
    /\ UNCHANGED <<site, call, entry, since_fetch>>
    /\ UNCHANGED crawlVars
    /\ UNCHANGED crawlGhosts
    /\ UNCHANGED harvestVars

(* ------------------------ scrape_all_products -------------------------- *)
\* lines 215-219: crawl_site returns into scrape_all_products
HarvestBegin ==
    /\ pc = "loop"
    /\ ~ LoopCond
    /\ entry = "scrape_all_products"
    /\ iter_order' \in Perms(product_urls)
    /\ scrapable' \in SUBSET product_urls
    /\ all_products' = <<>>
    /\ count' = 0
    /\ pc' = "hloop"
    /\ UNCHANGED <<site, call, entry, since_fetch, output_file, report>>
    /\ UNCHANGED crawlVars
    /\ UNCHANGED crawlGhosts

\* for url in product_urls: if count >= limit: break
HarvestCond == iter_order # <<>> /\ count < limit

\* a record that carries the root URL instead of the URL of its page
ProductRecord_RootUrl(url) == [url |-> root_url]

\* scrape_product returns the extracted record with its url field
ProductRecord(url) == [url |-> url]

\* lines 225-235 where scrape_product returns a non-empty record
HarvestScrapeOK ==
    /\ pc = "hloop"
    /\ HarvestCond
    /\ Head(iter_order) \in scrapable
    /\ all_products' = Append(all_products, ProductRecord(Head(iter_order)))
    /\ count' = count + 1
    /\ iter_order' = Tail(iter_order)
    /\ since_fetch' = 0
    /\ pc' = "hsleep"
    /\ UNCHANGED <<site, call, entry, scrapable, output_file, report>>
    /\ UNCHANGED crawlVars
    /\ UNCHANGED crawlGhosts

\* a failed scrape that counts toward the limit
HarvestScrapeFail_Counts ==
    /\ pc = "hloop"
    /\ HarvestCond
    /\ Head(iter_order) \notin scrapable
    /\ iter_order' = Tail(iter_order)
    /\ count' = count + 1
    /\ since_fetch' = 0
    /\ pc' = "hsleep"
    /\ UNCHANGED <<site, call, entry, scrapable, all_products, output_file, report>>
    /\ UNCHANGED crawlVars
    /\ UNCHANGED crawlGhosts

\* lines 225-235 where scrape_product caught an exception and returned {}
HarvestScrapeFail ==
    /\ pc = "hloop"
    /\ HarvestCond
    /\ Head(iter_order) \notin scrapable
    /\ iter_order' = Tail(iter_order)
    /\ since_fetch' = 0
    /\ pc' = "hsleep"
    /\ UNCHANGED <<site, call, entry, scrapable, count, all_products, output_file, report>>
    /\ UNCHANGED crawlVars
    /\ UNCHANGED crawlGhosts

\* line 235: time.sleep(1)
HarvestSleep ==
    /\ pc = "hsleep"
    /\ since_fetch' = since_fetch + 1
    /\ pc' = "hloop"
    /\ UNCHANGED <<site, call, entry, iter_order, scrapable, count, all_products, output_file, report>>
    /\ UNCHANGED crawlVars
    /\ UNCHANGED crawlGhosts

\* lines 240-245 without the 'if all_products' test: the file is always written
HarvestFinish_AlwaysWrites ==
    /\ pc = "hloop"
    /\ ~ HarvestCond
    /\ output_file' = [exists |-> TRUE, data |-> all_products]
    /\ report' = "saved"
    /\ pc' = "idle"
    /\ UNCHANGED <<site, call, entry, iter_order, scrapable, count, all_products, since_fetch>>
    /\ UNCHANGED crawlVars
    /\ UNCHANGED crawlGhosts

\* lines 240-245
HarvestFinish ==
    /\ pc = "hloop"
    /\ ~ HarvestCond
    /\ IF all_products # <<>>
       THEN /\ output_file' = [exists |-> TRUE, data |-> all_products]
            /\ report' = "saved"
       ELSE /\ output_file' = output_file
            /\ report' = "no_products"
    /\ pc' = "idle"
    /\ UNCHANGED <<site, call, entry, iter_order, scrapable, count, all_products, since_fetch>>
    /\ UNCHANGED crawlVars
    /\ UNCHANGED crawlGhosts

\* the steps the running program takes by itself
Run ==
    \/ CrawlFetchOK
    \/ CrawlParseError
    \/ CrawlRequestError
    \/ CrawlSkip
    \/ CrawlSleep
    \/ CrawlReturn
    \/ HarvestBegin
    \/ HarvestScrapeOK
    \/ HarvestScrapeFail
    \/ HarvestSleep
    \/ HarvestFinish

Next ==
    \/ StartCrawlSite
    \/ StartScrapeAll
    \/ CrawlSkip
    \/ CrawlRequestError
    \/ CrawlFetchOK
    \/ CrawlParseError
    \/ CrawlSleep
    \/ CrawlReturn
    \/ HarvestBegin
    \/ HarvestScrapeOK
    \/ HarvestScrapeFail
    \/ HarvestSleep
    \/ HarvestFinish

Spec == Init /\ [][Next]_vars

(* -------------------- the harvest loop on its own ---------------------- *)
IdChars == <<"0", "1", "2", "3", "4", "5", "6", "7", "8", "9", "a", "b", "c", "d", "e", "f">>

\* the i-th product page of a large catalogue
ProductUrlAt(i) == root_url \o ProductsPat \o <<IdChars[i]>>

\* the orders in which the harvest loop is tried on the first n product pages
IterOrders(n) == { [i \in 1..n |-> ProductUrlAt(i)], [i \in 1..n |-> ProductUrlAt(n + 1 - i)] }

\* the state in which crawl_site returns a catalogue of n product pages to line 215
HarvestInit ==
    \E n \in 0..MaxProducts :
        /\ pc = "hloop"
        /\ entry = "scrape_all_products"
        /\ max_pages = DefaultMaxPages
        /\ queue = <<>>
        /\ product_urls = {ProductUrlAt(i) : i \in 1..n}
        /\ visited_urls = {root_url} \cup product_urls
        /\ robot_parser = read_robots_txt([kind |-> "http_404", rules |-> {}])
        /\ iter_order \in IterOrders(n)
        /\ scrapable \in SUBSET product_urls
        /\ count = 0
        /\ all_products = <<>>
        /\ output_file = NoFile
        /\ robots_failed = FALSE
        /\ ok_count = n + 1
        /\ last_outcome = "ok"
        /\ last_url = IF n = 0 THEN root_url ELSE ProductUrlAt(n)
        /\ last_rejected = {}
        /\ since_fetch = 1
        /\ report = "none"
        /\ site = AnySite
        /\ call = NoCall

HarvestNext ==
    \/ HarvestScrapeOK
    \/ HarvestScrapeFail
    \/ HarvestSleep
    \/ HarvestFinish

HarvestSpec == HarvestInit /\ [][HarvestNext]_vars

(* ------------------ whole runs on a site that is fixed ----------------- *)
\* the URLs crawl_site can request: same domain, not a media file
SiteUrls == {u \in AllUrls : is_same_domain(u, root_url) /\ ~ IsMediaLink(u)}

\* the href by which the pages of a fixture site link to the page u: the
\* longest one, which carries a query and a fragment when there is one
LinkTo(u) ==
    LET hs == {h \in Hrefs : ~ UrlRaises(h) /\ CleanUrl(urljoin(root_url, h)) = u}
    IN  CHOOSE h \in hs : \A g \in hs : Len(g) <= Len(h)

SiteHrefs == {LinkTo(u) : u \in SiteUrls \ {root_url}}

\* fixture sites: every page links to at most MaxAnchors pages of the site
SiteMaps == [SiteUrls -> {hs \in Pages : hs \subseteq SiteHrefs}]


\* the pages within d links of the root
RECURSIVE Ball(_, _)
Ball(m, d) ==
    IF d = 0 THEN {root_url}
    ELSE LET B == Ball(m, d - 1)
         IN  B \cup UNION {LinksOf[m[u]] : u \in B}

Sites ==
    {[fixed |-> TRUE, map |-> m,
      near |-> [d \in 0..Cardinality(SiteUrls) |-> Ball(m, d)]] : m \in SiteMaps}

\* the pages that can be reached from the root by following links
Reach(m) == Ball(m, Cardinality(SiteUrls))

SiteInit ==
    /\ Constructed
    /\ site \in Sites
    /\ call = NoCall

\* the robots policy read at the start allows every page of the site
GateAllowsAll == \A u \in SiteUrls : can_fetch(robot_parser', u)

SiteStartScrapeAll == StartScrapeAll /\ GateAllowsAll

\* every scrape_product call of the harvest loop succeeds
SiteHarvestBegin == HarvestBegin /\ scrapable' = product_urls

\* runs in which every request succeeds
SiteNext ==
    \/ SiteStartScrapeAll
    \/ CrawlSkip
    \/ CrawlFetchOK
    \/ CrawlSleep
    \/ SiteHarvestBegin
    \/ HarvestScrapeOK
    \/ HarvestSleep
    \/ HarvestFinish

SiteSpec == SiteInit /\ [][SiteNext]_vars

(* ------------------ the link helpers of get_all_links ------------------ *)
\* pieces of text a URL is made of after the root
Pieces ==
    { <<"/">>, <<"a">>, <<".">>, <<"-">>, <<"#">>, <<"?">>,
      <<"j", "p", "g">>, <<"J", "P", "G">> }

RECURSIVE Flat(_)
Flat(ps) == IF ps = <<>> THEN <<>> ELSE Head(ps) \o Flat(Tail(ps))

\* full_url of line 57 for hrefs of at most MaxPieces pieces
UrlInputs ==
    {root_url \o <<"/">> \o Flat(ps) :
        ps \in UNION {[1..n -> Pieces] : n \in 0..MaxPieces}}

\* lines 59-60 without the second split: only the fragment is cut
CallCleanUrl_FragmentOnly ==
    /\ call = NoCall
    /\ \E u \in UrlInputs : call' = [fn |-> "clean", arg |-> u, out |-> SplitFirst(u, "#")]
    /\ UNCHANGED programVars

\* lines 59-60 on one URL
CallCleanUrl ==
    /\ call = NoCall
    /\ \E u \in UrlInputs : call' = [fn |-> "clean", arg |-> u, out |-> CleanUrl(u)]
    /\ UNCHANGED programVars

\* lines 59-66 on one URL: the media test is made on the cleaned URL
CallMediaFilter ==
    /\ call = NoCall
    /\ \E u \in UrlInputs :
          call' = [fn |-> "media", arg |-> CleanUrl(u),
                   out |-> IF IsMediaLink(CleanUrl(u)) THEN <<"rejected">> ELSE <<"accepted">>]
    /\ UNCHANGED programVars

UrlNext ==
    \/ CallCleanUrl
    \/ CallMediaFilter

UrlSpec == Init /\ [][UrlNext]_vars

(* --------------------- extraction of a product page -------------------- *)
\* JSON values as json.loads returns them. A text is a sequence of tokens,
\* a key is a text, an object is the sequence of its entries in document order.
JStr(s) == [t |-> "scalar", v |-> <<s>>, items |-> <<>>]
JDict(entries) == [t |-> "dict", v |-> <<>>, items |-> entries]
JList(elems) == [t |-> "list", v |-> <<>>, items |-> elems]
Entry(k, v) == [k |-> k, v |-> v]
Elem(v) == [k |-> <<>>, v |-> v]

\* new_key with the separator even when parent_key is empty
NewKey_AlwaysSep(parent, k) == parent \o <<"_">> \o k

\* new_key = f"{parent_key}{sep}{k}" if parent_key else k
NewKey(parent, k) == IF parent # <<>> THEN parent \o <<"_">> \o k ELSE k

\* d[key] = value on a dict kept as the sequence of its (key, value) pairs
RECURSIVE SetKey(_, _)
SetKey(d, p) ==
    IF d = <<>> THEN <<p>>
    ELSE IF Head(d)[1] = p[1] THEN <<p>> \o Tail(d)
    ELSE <<Head(d)>> \o SetKey(Tail(d), p)

RECURSIVE DictFrom(_, _)
DictFrom(d, pairs) ==
    IF pairs = <<>> THEN d ELSE DictFrom(SetKey(d, Head(pairs)), Tail(pairs))

\* dict(items) on line 157
DictOf(pairs) == DictFrom(<<>>, pairs)

\* an update that keeps the value a key already has
DictUpdate_KeepFirst(d, e) == DictFrom(e, d)

\* schema_data.update(...) on lines 121 and 128
DictUpdate(d, e) == DictFrom(d, e)

\* all(isinstance(x, (str, int, float)) for x in v)
IsScalarList(elems) == \A i \in 1..Len(elems) : elems[i].v.t = "scalar"

\* ", ".join(str(x) for x in v)
RECURSIVE JoinScalars(_)
JoinScalars(elems) ==
    IF elems = <<>> THEN <<>>
    ELSE IF Len(elems) = 1 THEN Head(elems).v.v
    ELSE Head(elems).v.v \o <<", ">> \o JoinScalars(Tail(elems))

\* str(i) for the index of a list element
IndexText(i) == <<"0", "1", "2", "3", "4">>[i + 1]

RECURSIVE flatten_dict(_, _)
RECURSIVE FlattenItems(_, _)
RECURSIVE FlattenElems(_, _, _)

\* lines 147-154: the dict elements of a list that is not all scalars
FlattenElems(elems, new_key, i) ==
    IF elems = <<>> THEN <<>>
    ELSE (IF Head(elems).v.t = "dict"
          THEN flatten_dict(Head(elems).v.items, new_key \o <<"_">> \o <<IndexText(i)>>)
          ELSE <<>>)
         \o FlattenElems(Tail(elems), new_key, i + 1)

\* lines 138-156: the items list built by the loop over d.items()
FlattenItems(entries, parent) ==
    IF entries = <<>> THEN <<>>
    ELSE LET v == Head(entries).v
             new_key == NewKey(parent, Head(entries).k)
             here == IF v.t = "dict" THEN flatten_dict(v.items, new_key)
                     ELSE IF v.t = "list"
                          THEN IF IsScalarList(v.items)
                               THEN << <<new_key, JoinScalars(v.items)>> >>
                               ELSE FlattenElems(v.items, new_key, 0)
                          ELSE << <<new_key, v.v>> >>
         IN  here \o FlattenItems(Tail(entries), parent)

\* _flatten_dict(d, parent_key) on the entries of d
flatten_dict(entries, parent) == DictOf(FlattenItems(entries, parent))

\* data["@type"] in ["Product", "WebPage"], with "@type" in data
IsWanted(v) ==
    /\ v.t = "dict"
    /\ \E i \in 1..Len(v.items) :
          /\ v.items[i].k = <<"@type">>
          /\ v.items[i].v \in {JStr("Product"), JStr("WebPage")}

\* lines 123-128: the elements of a top-level list
RECURSIVE ExtractElems(_, _)
ExtractElems(elems, acc) ==
    IF elems = <<>> THEN acc
    ELSE ExtractElems(Tail(elems),
            IF IsWanted(Head(elems).v)
            THEN DictUpdate(acc, flatten_dict(Head(elems).v.items, <<>>))
            ELSE acc)

\* lines 114-129: the loop over the script blocks. json.loads(None) raises
\* TypeError, which 'except json.JSONDecodeError' does not catch.
RECURSIVE ExtractBlocks(_, _)
ExtractBlocks(blocks, acc) ==
    IF blocks = <<>> THEN [raised |-> FALSE, record |-> acc]
    ELSE LET b == Head(blocks)
         IN  IF b.kind = "none" THEN [raised |-> TRUE, record |-> <<>>]
             ELSE IF b.kind = "malformed" THEN ExtractBlocks(Tail(blocks), acc)
             ELSE IF b.data.t = "dict"
                  THEN ExtractBlocks(Tail(blocks),
                          IF IsWanted(b.data)
                          THEN DictUpdate(acc, flatten_dict(b.data.items, <<>>))
                          ELSE acc)
             ELSE IF b.data.t = "list"
                  THEN ExtractBlocks(Tail(blocks), ExtractElems(b.data.items, acc))
             ELSE ExtractBlocks(Tail(blocks), acc)

\* lines 110-133; page.fallback is what _extract_fallback_data finds on the page
extract_schema_data(page) ==
    LET r == ExtractBlocks(page.blocks, <<>>)
    IN  IF r.raised THEN r
        ELSE IF r.record = <<>> THEN [raised |-> FALSE, record |-> page.fallback]
        ELSE r

(* inputs *)
Texts == {JStr("x"), JStr("y")}
KeyA == <<"a">>
KeyB == <<"b">>
KeyAB == <<"a", "_", "b">>

\* objects nested inside the object that is flattened
InnerDicts ==
    { JDict(<<>>),
      JDict(<<Entry(KeyB, JStr("x"))>>),
      JDict(<<Entry(KeyB, JStr("y"))>>),
      JDict(<<Entry(KeyA, JStr("x")), Entry(KeyB, JStr("y"))>>),
      JDict(<<Entry(KeyB, JDict(<<Entry(KeyA, JStr("y"))>>))>>) }

\* lists of at most MaxListLen texts and objects
ListElems == {Elem(v) : v \in Texts \cup {JDict(<<Entry(KeyB, JStr("x"))>>), JDict(<<Entry(KeyA, JStr("y"))>>)}}
InnerLists == {JList(es) : es \in UNION {[1..n -> ListElems] : n \in 0..MaxListLen}}

InnerValues == Texts \cup InnerDicts \cup InnerLists

\* the objects given to _flatten_dict: entries "a" and "a_b" in any order
FlattenInputs ==
    {<<>>}
    \cup {<<Entry(k, v)>> : k \in {KeyA, KeyAB}, v \in InnerValues}
    \cup {<<Entry(ks[1], v1), Entry(ks[2], v2)>> :
            ks \in {<<KeyA, KeyAB>>, <<KeyAB, KeyA>>},
            v1 \in InnerValues, v2 \in InnerValues}

\* an object with an "@type" entry in front
Typed(ty, entries) == JDict(<<Entry(<<"@type">>, JStr(ty))>> \o entries)

BlockDicts ==
    {Typed(ty, <<Entry(k, v)>>) : ty \in {"Product", "WebPage", "Offer"}, k \in {KeyA, KeyB}, v \in Texts}
    \cup {JDict(<<Entry(k, v)>>) : k \in {KeyA}, v \in Texts}
    \cup {Typed("Product", <<Entry(KeyA, JStr("x")), Entry(KeyB, JStr("x"))>>)}

BlockLists ==
    { JList(<<>>),
      JList(<<Elem(Typed("Product", <<Entry(KeyA, JStr("x"))>>))>>),
      JList(<<Elem(Typed("Product", <<Entry(KeyA, JStr("x"))>>)),
              Elem(Typed("WebPage", <<Entry(KeyA, JStr("y"))>>))>>),
      JList(<<Elem(Typed("Offer", <<Entry(KeyA, JStr("y"))>>)),
              Elem(Typed("Product", <<Entry(KeyB, JStr("x"))>>))>>),
      JList(<<Elem(JStr("x")), Elem(Typed("Product", <<Entry(KeyA, JStr("y"))>>))>>) }

\* what json.loads(script.string) does on a block: script.string is None,
\* the text is not JSON, or the text is a JSON value
Blocks ==
    { [kind |-> "none", data |-> JStr("")], [kind |-> "malformed", data |-> JStr("")] }
    \cup {[kind |-> "json", data |-> v] : v \in BlockDicts \cup BlockLists \cup {JStr("x")}}

FallbackRecords == { <<>>, << <<<<"title">>, <<"Bow">>>> >> }

ProductPages ==
    {[blocks |-> bs, fallback |-> fb] :
        bs \in UNION {[1..n -> Blocks] : n \in 0..MaxBlocks}, fb \in FallbackRecords}

\* _flatten_dict called on one object
CallFlatten ==
    /\ call = NoCall
    /\ \E d \in FlattenInputs :
          call' = [fn |-> "flatten", arg |-> d, out |-> flatten_dict(d, <<>>)]
    /\ UNCHANGED programVars

\* extract_schema_data called on one page
CallExtract ==
    /\ call = NoCall
    /\ \E page \in ProductPages :
          call' = [fn |-> "extract", arg |-> page, out |-> extract_schema_data(page)]
    /\ UNCHANGED programVars

ExtractNext ==
    \/ CallFlatten
    \/ CallExtract

ExtractSpec == Init /\ [][ExtractNext]_vars

\* the program keeps running once called: single thread, no blocking but the sleep
LiveSpec == Init /\ [][Next]_vars /\ WF_vars(Run)

(* ------------------------------ helpers -------------------------------- *)
\* number of entries of q equal to u
Occ(q, u) == Cardinality({i \in 1..Len(q) : q[i] = u})

Range(q) == {q[i] : i \in 1..Len(q)}

MinOf(a, b) == IF a <= b THEN a ELSE b

\* the path of url ends, whatever the case of the letters, in a dot and one
\* of the media extensions
PathEndsInMediaExt(url) ==
    LET path == UrlPath(url)
    IN  \E e \in MediaExts :
            /\ Len(path) > Len(e)
            /\ path[Len(path) - Len(e)] = "."
            /\ \A k \in 1..Len(e) : Lower(path[Len(path) - Len(e) + k]) = e[k]

\* a step of the crawl loop that issues a page request
CrawlRequests == pc = "loop" /\ pc' = "sleep"

(* ------------------------------ claims --------------------------------- *)

\* C1: in a crawl_site session the visited set never holds more than max_pages
\* URLs, and every successful fetch adds a new URL to it: the number of
\* successful fetches equals the size of the visited set, so no URL is
\* successfully fetched twice.
C1_VisitBudgetAndOnce ==
    /\ Cardinality(visited_urls) <= max_pages
    /\ ok_count = Cardinality(visited_urls)

\* a second queue entry of an allowed URL was dequeued after the URL had been
\* visited, and was skipped
C1_Witness ==
    /\ pc = "loop"
    /\ last_outcome = "skip"
    /\ last_url \in visited_urls
    /\ can_fetch(robot_parser, last_url)
    /\ ok_count >= 3

\* C2: when read_robots_txt caught an exception, can_fetch answers true for
\* every URL of the session.
C2_FailedRobotsAllowsAll ==
    robots_failed => \A u \in AllUrls : can_fetch(robot_parser, u)

\* C3: every page request of the crawl loop is for a URL the gate allows; a
\* dequeued URL the gate denies is dropped without a request; and no step of
\* the session adds a queue entry for a URL the gate denies.
C3_DeniedNeverFetched ==
    [][ pc = "loop" =>
          /\ CrawlRequests => can_fetch(robot_parser, Head(queue))
          /\ (LoopCond /\ ~ can_fetch(robot_parser, Head(queue))) =>
                /\ queue' = Tail(queue)
                /\ since_fetch' = since_fetch
                /\ ok_count' = ok_count
                /\ pc' = "loop"
          /\ \A u \in Range(queue') :
                ~ can_fetch(robot_parser, u) => Occ(queue', u) <= Occ(queue, u) ]_vars

\* the policy denies /d, a fetched page linked to it, and the link was left out
C3_Witness ==
    /\ robot_parser.rules # {}
    /\ last_outcome = "ok"
    /\ "denied" \in last_rejected
    /\ \A u \in Range(queue) : can_fetch(robot_parser, u)

\* C4: link discovery appends a URL to the queue only if it is not in the
\* visited set, has the root's netloc and is allowed by the policy.
C4_FrontierInvariant ==
    [][ pc = "loop" =>
          \A u \in Range(queue') :
              Occ(queue', u) > Occ(queue, u) =>
                  /\ u \notin visited_urls'
                  /\ is_same_domain(u, root_url)
                  /\ can_fetch(robot_parser, u) ]_vars

\* a fetched page carried a cross-domain anchor and an anchor to a visited
\* page, and neither is in the queue
C4_Witness ==
    /\ last_outcome = "ok"
    /\ {"cross", "visited"} \subseteq last_rejected
    /\ \A u \in Range(queue) : is_same_domain(u, root_url)

\* C5: the queue never contains a URL more than once.
C5_NoDuplicateQueueEntries ==
    \A i, j \in 1..Len(queue) : queue[i] = queue[j] => i = j

\* C6: an iteration whose try block raised (request error or parse error)
\* leaves its URL out of the product set, enqueues nothing, and goes on to
\* the delay and the next queue entry.
C6_ErrorAbandonsUrl ==
    [][ (CrawlRequests /\ last_outcome' \in {"request_error", "parse_error"}) =>
          /\ last_url' \notin product_urls'
          /\ queue' = Tail(queue)
          /\ pc' \in {"loop", "sleep"} ]_vars

\* C7: a crawl that has entered its loop leaves it, and when it does the
\* queue is empty or the visited set holds exactly max_pages URLs.
C7_CrawlTerminates ==
    /\ (pc \in {"loop", "sleep"}) ~> (pc \in {"idle", "hloop"})
    /\ [][ (pc = "loop" /\ pc' \in {"idle", "hloop"}) =>
              (queue = <<>> \/ Cardinality(visited_urls) = max_pages) ]_vars

\* a crawl returned on its page budget, reached by a page whose links could
\* not be extracted, with URLs still queued
C7_Witness ==
    /\ pc = "idle"
    /\ entry = "crawl_site"
    /\ queue # <<>>
    /\ max_pages > 0
    /\ Cardinality(visited_urls) = max_pages
    /\ last_outcome = "parse_error"

\* C8: wherever the next page request can be issued (the head of the crawl
\* loop or of the harvest loop) either no request was made in this run or
\* exactly one delay has passed since the latest request, and the delay
\* follows every request, failed or not.
C8_DelayBetweenRequests ==
    /\ pc \in {"loop", "hloop", "idle"} => since_fetch \in {-1, 1}
    /\ pc \in {"sleep", "hsleep"} => since_fetch = 0

\* the harvest loop is about to request its product page after a failed
\* request of the crawl loop and one delay
C8_Witness ==
    /\ pc = "hloop"
    /\ HarvestCond
    /\ last_outcome = "request_error"
    /\ since_fetch = 1

\* C9: a call of crawl_site starts with an empty visited set and an empty
\* product set, and until it returns the visited set only grows, by the URL
\* fetched in that step: it holds only URLs fetched in this session.
C9_SessionState ==
    [][ /\ (pc = "idle" /\ pc' = "loop") =>
              (visited_urls' = {} /\ product_urls' = {})
        /\ pc # "idle" =>
              /\ visited_urls \subseteq visited_urls'
              /\ product_urls \subseteq product_urls'
              /\ visited_urls' \subseteq visited_urls \cup {last_url'}
              /\ product_urls' \subseteq visited_urls' ]_vars

\* a second call on an instance whose first call had saved a product: the
\* second session found no product
C9_Witness ==
    /\ output_file.exists
    /\ pc = "idle"
    /\ entry = "crawl_site"
    /\ visited_urls # {}
    /\ \A i \in 1..Len(output_file.data) : output_file.data[i].url \notin visited_urls

\* C10: the collection never holds more than limit records, count is the
\* number of records, every record is of a URL whose scrape succeeded, and
\* at the end the collection holds min(limit, number of scrapable product
\* URLs) records.
C10_HarvestLimit ==
    /\ Len(all_products) <= limit
    /\ count = Len(all_products)
    /\ \A i \in 1..Len(all_products) : all_products[i].url \in scrapable
    /\ report # "none" =>
          Len(all_products) = MinOf(limit, Cardinality(scrapable))

\* limit records were collected although a product URL iterated before the
\* last of them had failed
C10_Witness ==
    /\ report = "saved"
    /\ Len(all_products) = limit
    /\ iter_order = <<>>
    /\ product_urls \ scrapable # {}

\* C11: the step that ends a harvest run writes the collection to the output
\* file and reports "saved" when the collection holds at least one record;
\* when it holds none the file on disk is left as it was and the run reports
\* that no products were collected. No other step touches the file.
C11_FileIffRecords ==
    [][ IF pc = "hloop" /\ pc' = "idle"
        THEN IF all_products # <<>>
             THEN /\ output_file' = [exists |-> TRUE, data |-> all_products]
                  /\ report' = "saved"
             ELSE /\ output_file' = output_file
                  /\ report' = "no_products"
        ELSE output_file' = output_file ]_vars

\* a run that discovered a product page, failed to scrape it and ended with
\* the zero-results report, leaving the file of an earlier run untouched
C11_Witness ==
    /\ pc = "idle"
    /\ report = "no_products"
    /\ product_urls # {}
    /\ all_products = <<>>
    /\ output_file.exists

C19_ProductsAreVisitedMatches ==
    product_urls = {u \in visited_urls : is_product_url(u)}

\* a product page and a page that is not a product have both been fetched
C19_Witness ==
    /\ pc = "loop"
    /\ product_urls # {}
    /\ \E u \in visited_urls \ {root_url} : ~ is_product_url(u)

\* C20: a URL whose request failed is not requested again in the session; in
\* particular the request that follows a failed one is for another URL.
C20_FailedUrlAbandoned ==
    [][ (CrawlRequests /\ last_outcome = "request_error") => Head(queue) # last_url ]_vars

\* C16: the URL that lines 59-60 produce holds no "#" and no "?", and
\* cleaning it again gives the same URL.
C16_CleanUrlIdempotent ==
    call.fn = "clean" =>
        /\ "#" \notin Range(call.out)
        /\ "?" \notin Range(call.out)
        /\ CleanUrl(call.out) = call.out

\* a URL whose fragment holds a "?" and whose query comes before the
\* fragment was cleaned, and both were cut
C16_Witness ==
    /\ call.fn = "clean"
    /\ \E i, j, k \in 1..Len(call.arg) :
          i < j /\ j < k /\ call.arg[i] = "?" /\ call.arg[j] = "#" /\ call.arg[k] = "?"
    /\ Len(call.out) < Len(call.arg)

\* C17: the media filter rejects a cleaned URL exactly when the path of the
\* URL ends, in any case of letters, in one of the media extensions.
C17_MediaFilterEndsWith ==
    call.fn = "media" =>
        ((call.out = <<"rejected">>) <=> PathEndsInMediaExt(call.arg))

\* the objects of a page that extract_schema_data flattens, in document order
RECURSIVE WantedElems(_)
WantedElems(elems) ==
    IF elems = <<>> THEN <<>>
    ELSE (IF IsWanted(Head(elems).v) THEN <<Head(elems).v>> ELSE <<>>)
         \o WantedElems(Tail(elems))

RECURSIVE WantedObjects(_)
WantedObjects(blocks) ==
    IF blocks = <<>> THEN <<>>
    ELSE LET b == Head(blocks)
         IN  (IF b.kind # "json" THEN <<>>
              ELSE IF b.data.t = "dict" THEN (IF IsWanted(b.data) THEN <<b.data>> ELSE <<>>)
              ELSE IF b.data.t = "list" THEN WantedElems(b.data.items)
              ELSE <<>>)
             \o WantedObjects(Tail(blocks))

\* the keys of a dict and the value it has for a key
Keys(d) == {d[i][1] : i \in 1..Len(d)}
ValueAt(d, k) == d[CHOOSE i \in 1..Len(d) : d[i][1] = k][2]

\* C13: extract_schema_data returns a record and never raises, on every page:
\* a block that cannot be parsed (malformed JSON, or a script block without
\* text) is skipped, and the record is the one extracted from the other blocks.
C13_UnparseableSkipped ==
    call.fn = "extract" =>
        /\ ~ call.out.raised
        /\ call.out.record =
              extract_schema_data(
                  [call.arg EXCEPT !.blocks = SelectSeq(@, LAMBDA b : b.kind = "json")]).record

\* C14: when a page has several objects typed Product or WebPage (blocks or
\* list elements), the merged record has the keys of all of them, and each key
\* has the value from the last object, in document order, that defines it.
C14_LaterBlockWins ==
    (call.fn = "extract" /\ ~ call.out.raised /\ WantedObjects(call.arg.blocks) # <<>>) =>
        LET objs == WantedObjects(call.arg.blocks)
            flats == [i \in 1..Len(objs) |-> flatten_dict(objs[i].items, <<>>)]
            record == call.out.record
        IN  /\ Keys(record) = UNION {Keys(flats[i]) : i \in 1..Len(objs)}
            /\ Cardinality(Keys(record)) = Len(record)
            /\ \A k \in Keys(record) :
                 \E i \in 1..Len(objs) :
                    /\ k \in Keys(flats[i])
                    /\ \A j \in (i + 1)..Len(objs) : k \notin Keys(flats[j])
                    /\ ValueAt(record, k) = ValueAt(flats[i], k)

C14_Witness ==
    /\ call.fn = "extract"
    /\ ~ call.out.raised
    /\ Len(call.arg.blocks) = 2
    /\ LET objs == WantedObjects(call.arg.blocks)
       IN  /\ Len(objs) = 2
           /\ \E k \in Keys(call.out.record) :
                 /\ k # <<"@type">>
                 /\ k \in Keys(flatten_dict(objs[1].items, <<>>))
                 /\ k \in Keys(flatten_dict(objs[2].items, <<>>))
                 /\ ValueAt(call.out.record, k) = ValueAt(flatten_dict(objs[2].items, <<>>), k)
                 /\ ValueAt(call.out.record, k) # ValueAt(flatten_dict(objs[1].items, <<>>), k)
           /\ \E k \in Keys(call.out.record) : k \notin Keys(flatten_dict(objs[2].items, <<>>))

\* the scalar leaves of an object without lists, in document order, each with
\* the path of keys that leads to it
RECURSIVE Leaves(_, _)
Leaves(entries, path) ==
    IF entries = <<>> THEN <<>>
    ELSE LET e == Head(entries)
         IN  (IF e.v.t = "dict" THEN Leaves(e.v.items, Append(path, e.k))
              ELSE << <<Append(path, e.k), e.v.v>> >>)
             \o Leaves(Tail(entries), path)

RECURSIVE ListFree(_)
ListFree(entries) ==
    \A i \in 1..Len(entries) :
        /\ entries[i].v.t # "list"
        /\ entries[i].v.t = "dict" => ListFree(entries[i].v.items)

\* the keys of a path joined by single underscores, none in front
RECURSIVE JoinPath(_)
JoinPath(path) ==
    IF Len(path) = 1 THEN path[1]
    ELSE path[1] \o <<"_">> \o JoinPath(Tail(path))

\* C15 as stated: flattening a nested object gives one key per scalar leaf,
\* named by the path of keys joined by single underscores with none in front,
\* and holding the value of that leaf.
C15_OneKeyPerLeaf ==
    (call.fn = "flatten" /\ ListFree(call.arg)) =>
        LET leaves == Leaves(call.arg, <<>>)
        IN  /\ Len(call.out) = Len(leaves)
            /\ \A i \in 1..Len(leaves) :
                 /\ JoinPath(leaves[i][1]) \in Keys(call.out)
                 /\ ValueAt(call.out, JoinPath(leaves[i][1])) = leaves[i][2]

\* C15 (amended): flattening a nested object gives one key per distinct path
\* name (the path of keys joined by single underscores, none in front); a key
\* holds the value of the last scalar leaf, in document order, with that name.
C15_OneKeyPerPathName ==
    (call.fn = "flatten" /\ ListFree(call.arg)) =>
        LET leaves == Leaves(call.arg, <<>>)
        IN  /\ Keys(call.out) = {JoinPath(leaves[i][1]) : i \in 1..Len(leaves)}
            /\ Cardinality(Keys(call.out)) = Len(call.out)
            /\ \A k \in Keys(call.out) :
                 \E i \in 1..Len(leaves) :
                    /\ JoinPath(leaves[i][1]) = k
                    /\ \A j \in (i + 1)..Len(leaves) : JoinPath(leaves[j][1]) # k
                    /\ ValueAt(call.out, k) = leaves[i][2]

C15_Witness ==
    /\ call.fn = "flatten"
    /\ ListFree(call.arg)
    /\ LET leaves == Leaves(call.arg, <<>>)
       IN  /\ Len(leaves) = 3
           /\ \E i \in 1..3 : Len(leaves[i][1]) = 3
           /\ Len(call.out) = 2
           /\ <<KeyA \o <<"_">> \o KeyB \o <<"_">> \o KeyA, <<"y">> >> \in Range(call.out)

====
